---- MODULE Spec2Model ----
(***************************************************************************)
(* Model of ehr_ml/clmbr/featurizer.py: the CLMBRFeaturizer training loop  *)
(* (fit, _train_epoch, evaluate), evaluate called on its own, the          *)
(* representation extractor (featurize_patients) and the loader            *)
(* (from_pretrained).  One thread of control runs one call at a time.      *)
(***************************************************************************)
EXTENDS Integers, Sequences, FiniteSets, TLC

\* ------------------------------------------------------------------ bounds
MaxEpochs == 2        \* largest config["epochs_per_cycle"] explored
MaxBatches == 1       \* most batches the training Batch Source yields in an epoch
NumEvalBatches == 1   \* the num_batches cap fit passes to evaluate (2000), scaled
MaxLoss == 1          \* per-batch losses are drawn from 1..MaxLoss
MaxN == 3             \* longest query of featurize_patients
MaxFeatBatches == 2   \* most batches the extraction Batch Source yields
Pids == 1..2          \* the patient ids a query may name
Offsets == 0..1       \* the day offsets a query may name
WindowLens == 1..2    \* lengths of a patient's window in a batch
BatchSizes == 1..2    \* numbers of patients in one extraction batch
MaxCalls == 2         \* direct evaluate calls made one after the other
Seeds == 0..1         \* the seeds random.randint(0, 100000) may draw, scaled

\* the largest num_batches a direct call of evaluate passes
MaxCap == NumEvalBatches + 1

\* an evaluation Batch Source yields at most one batch more than the cap
MaxEvalStream == MaxCap + 1

\* dataset.num_batches(config["batch_size"], False), the train split's count
DatasetNumBatches == MaxBatches

\* --------------------------------------------------------------- constants
EmbSize == 2          \* config["size"], the embedding width

VARIABLES
    pc,               \* position of the single thread of control
    numEpochs,        \* fit: num_epochs (line 91)
    epoch,            \* fit: loop variable of line 106
    live,             \* Batch Sources inside their `with` scope
    stream,           \* batches the live Batch Source has still to yield
    params,           \* model parameters, as the number of optimizer steps applied
    totalLoss,        \* evaluate: total_loss (line 150)
    evalCount,        \* evaluate: elements taken from range(num_batches) (line 160)
    isVal,            \* evaluate: is_val of the running call
    trainLoss,        \* fit: train_loss (line 115)
    valLoss,          \* fit: val_loss (line 116)
    bestValLoss,      \* fit: best_val_loss, <<>> is None
    bestValLossEpoch, \* fit: best_val_loss_epoch, <<>> is None
    lossFile,         \* handle loss_file: "unopened", "open" or "closed"
    lossBuf,          \* entries written to loss_file and not yet flushed
    diskLog,          \* entries of model_dir/losses readable on disk
    bestFile,         \* model_dir/best: <<>> when absent, else <<artifact>>
    exc,              \* exception that left the call, "none" when none did
    query,            \* featurize_patients: zip(patient_ids, day_offsets)
    idx,              \* featurize_patients: patient_id_to_info
    rep,              \* featurize_patients: patient_representations
    writes,           \* per output row, number of scatter assignments (line 212)
    emitted,          \* pairs (pid, offset) the Batch Source emitted an embedding for
    missed,           \* rows whose patient came in a batch row lacking their offset
    seen,             \* per patient id, number of batch rows streamed for it
    epochParams,      \* per finished train phase, the parameters it left
    acquired,         \* the Batch Sources entered so far, in order
    optSteps,         \* optimizer.step() calls on the optimizer of line 93
    yielded,          \* per train phase entered, the batches its Batch Source holds
    batchOps,         \* _train_epoch: what has been done with the current batch
    mode,             \* the model's mode: "train" or "eval" (lines 60, 88, 146)
    seed,             \* seed of the Batch Source being opened or read
    evalCap,          \* evaluate: num_batches of the running call
    caller,           \* who called evaluate: "fit", "direct", or "none"
    memo,             \* what the first direct evaluate call streamed
    results,          \* values returned by the direct evaluate calls, in order
    loadEnv,          \* from_pretrained: what model_dir holds
    loaded            \* from_pretrained: <<>> or <<artifact loaded into the model>>

vars == <<pc, numEpochs, epoch, live, stream, params, totalLoss, evalCount,
          isVal, trainLoss, valLoss, bestValLoss, bestValLossEpoch, lossFile,
          lossBuf, diskLog, bestFile, exc, query, idx, rep, writes, emitted,
          missed, seen, epochParams, acquired, optSteps, yielded, batchOps, mode,
          seed, evalCap, caller, memo, results, loadEnv, loaded>>

fitVars == <<numEpochs, epoch, params, totalLoss, evalCount, isVal, trainLoss,
             valLoss, bestValLoss, bestValLossEpoch, lossFile, lossBuf,
             diskLog, bestFile, epochParams>>

featVars == <<query, idx, rep, writes, emitted, missed, seen>>

optVars == <<optSteps, yielded, batchOps>>

evalVars == <<mode, seed, evalCap, caller, memo, results>>

loadVars == <<loadEnv, loaded>>

\* ------------------------------------------------------------ loss values
\* total_loss / num_batches (line 170), kept as an exact fraction
Loss(total, n) == [num |-> total, den |-> n]

\* val_loss < best_val_loss (line 127) on fractions with positive denominators
LossLess(a, b) == a.num * b.den < b.num * a.den

NoLoss == Loss(0, 1)

\* an artifact and a loss log entry left in model_dir by an earlier run
PriorBest == [params |-> 0, epoch |-> 0, run |-> "prior"]
PriorEntry == [epoch |-> 0, train |-> NoLoss, val |-> NoLoss, run |-> "prior"]

\* from_pretrained: which of config.json and info.json model_dir holds, and
\* whether the parameters in "best" fit the model built from them
NoEnv == [config |-> FALSE, info |-> FALSE, compat |-> FALSE]

\* ------------------------------------------------------------------- Init
Init ==
    /\ pc = "idle"
    /\ numEpochs = 0
    /\ epoch = 0
    /\ live = {}
    /\ stream = 0
    /\ params = 0
    /\ totalLoss = 0
    /\ evalCount = 0
    /\ isVal = FALSE
    /\ trainLoss = NoLoss
    /\ valLoss = NoLoss
    /\ bestValLoss = <<>>
    /\ bestValLossEpoch = <<>>
    /\ lossFile = "unopened"
    /\ lossBuf = <<>>
    /\ \E prior \in BOOLEAN :
          /\ diskLog = IF prior THEN <<PriorEntry>> ELSE <<>>
          /\ bestFile = IF prior THEN <<PriorBest>> ELSE <<>>
    /\ exc = "none"
    /\ query = <<>>
    /\ idx = [p \in Pids |-> <<>>]
    /\ rep = <<>>
    /\ writes = <<>>
    /\ emitted = {}
    /\ missed = {}
    /\ seen = [p \in Pids |-> 0]
    /\ epochParams = <<>>
    /\ acquired = <<>>
    /\ optSteps = 0
    /\ yielded = <<>>
    /\ batchOps = <<>>
    /\ mode = "train"
    /\ seed = 0
    /\ evalCap = 0
    /\ caller = "none"
    /\ memo = <<>>
    /\ results = <<>>
    /\ loadEnv = NoEnv
    /\ loaded = <<>>

\* =================================================================== fit

\* lines 47-48: t_total of the optimizer's schedule
TTotal == DatasetNumBatches * numEpochs

\* FitStart resuming from the best val_loss of the loss log it finds
FitStartKeepsPrior ==
    /\ pc = "idle"
    /\ \E k \in 1..MaxEpochs : numEpochs' = k
    /\ epoch' = 0
    /\ bestValLoss' = IF Len(diskLog) > 0 THEN <<diskLog[1].val>> ELSE <<>>
    /\ bestValLossEpoch' = IF Len(diskLog) > 0 THEN <<diskLog[1].epoch>> ELSE <<>>
    /\ lossFile' = "open"
    /\ lossBuf' = <<>>
    /\ diskLog' = <<>>
    /\ epochParams' = <<>>
    /\ pc' = "epoch_head"
    /\ UNCHANGED <<acquired, live, stream, params, totalLoss, evalCount, isVal,
                   trainLoss, valLoss, bestFile, exc>>
    /\ UNCHANGED featVars
    /\ optSteps' = 0
    /\ yielded' = <<>>
    /\ batchOps' = <<>>
    /\ mode' = "train"
    /\ caller' = "fit"
    /\ evalCap' = NumEvalBatches
    /\ UNCHANGED <<seed, memo, results>>
    /\ UNCHANGED loadVars

\* lines 87-103: model.train(), optimizer built, best_* = None, loss_file
\* opened with "w"; lines 115-116 pass num_batches=2000 to evaluate
FitStart ==
    /\ pc = "idle"
    /\ \E k \in 1..MaxEpochs : numEpochs' = k
    /\ epoch' = 0
    /\ bestValLoss' = <<>>
    /\ bestValLossEpoch' = <<>>
    /\ lossFile' = "open"
    /\ lossBuf' = <<>>
    /\ diskLog' = <<>>
    /\ epochParams' = <<>>
    /\ pc' = "epoch_head"
    /\ UNCHANGED <<acquired, live, stream, params, totalLoss, evalCount, isVal,
                   trainLoss, valLoss, bestFile, exc>>
    /\ UNCHANGED featVars
    /\ optSteps' = 0
    /\ yielded' = <<>>
    /\ batchOps' = <<>>
    /\ mode' = "train"
    /\ caller' = "fit"
    /\ evalCap' = NumEvalBatches
    /\ UNCHANGED <<seed, memo, results>>
    /\ UNCHANGED loadVars

\* lines 88-93 and 46: config["epochs_per_cycle"] is 0 and the warmup
\* fraction of the optimizer divides by it; loss_file is not opened yet
FitBuildRaise ==
    /\ pc = "idle"
    /\ numEpochs' = 0
    /\ mode' = "train"
    /\ caller' = "fit"
    /\ exc' = "optimizer"
    /\ pc' = "build_failed"
    /\ UNCHANGED <<epoch, acquired, live, stream, params, totalLoss, evalCount,
                   isVal, trainLoss, valLoss, bestValLoss, bestValLossEpoch,
                   lossFile, lossBuf, diskLog, bestFile>>
    /\ UNCHANGED epochParams
    /\ UNCHANGED featVars
    /\ UNCHANGED optVars
    /\ UNCHANGED <<seed, evalCap, memo, results>>
    /\ UNCHANGED loadVars

\* lines 106-110 and 60-71: next epoch, _train_epoch enters its `with`
TrainEnter ==
    /\ pc = "epoch_head"
    /\ epoch < numEpochs
    /\ live' = live \cup {"train"}
    /\ acquired' = Append(acquired, "train")
    /\ \E n \in 0..MaxBatches :
          /\ stream' = n
          /\ yielded' = Append(yielded, n)
    /\ pc' = "train"
    /\ UNCHANGED <<numEpochs, epoch, params, totalLoss, evalCount, isVal,
                   trainLoss, valLoss, bestValLoss, bestValLossEpoch,
                   lossFile, lossBuf, diskLog, bestFile, exc>>
    /\ UNCHANGED epochParams
    /\ UNCHANGED featVars
    /\ mode' = "train"
    /\ \E sd \in Seeds : seed' = sd
    /\ UNCHANGED <<evalCap, caller, memo, results>>
    /\ UNCHANGED <<optSteps, batchOps>>
    /\ UNCHANGED loadVars

\* lines 72-73: the Batch Source yields a batch, forward pass
TrainForward ==
    /\ pc = "train"
    /\ stream > 0
    /\ stream' = stream - 1
    /\ pc' = "zero_grad"
    /\ UNCHANGED <<acquired, live, exc>>
    /\ UNCHANGED fitVars
    /\ UNCHANGED featVars
    /\ batchOps' = <<"forward">>
    /\ UNCHANGED <<optSteps, yielded>>
    /\ UNCHANGED evalVars
    /\ UNCHANGED loadVars

\* line 76: self.optimizer.zero_grad()
TrainZeroGrad ==
    /\ pc = "zero_grad"
    /\ pc' = "backward"
    /\ UNCHANGED <<acquired, live, stream, exc>>
    /\ UNCHANGED fitVars
    /\ UNCHANGED featVars
    /\ batchOps' = Append(batchOps, "zero_grad")
    /\ UNCHANGED <<optSteps, yielded>>
    /\ UNCHANGED evalVars
    /\ UNCHANGED loadVars

\* line 77: non_text_loss.backward()
TrainBackward ==
    /\ pc = "backward"
    /\ pc' = "step"
    /\ UNCHANGED <<acquired, live, stream, exc>>
    /\ UNCHANGED fitVars
    /\ UNCHANGED featVars
    /\ batchOps' = Append(batchOps, "backward")
    /\ UNCHANGED <<optSteps, yielded>>
    /\ UNCHANGED evalVars
    /\ UNCHANGED loadVars

\* TrainStep applying two optimizer steps to the batch
TrainStepTwice ==
    /\ pc = "step"
    /\ params' = params + 2
    /\ pc' = "train"
    /\ UNCHANGED <<numEpochs, epoch, acquired, live, stream, totalLoss, evalCount,
                   isVal, trainLoss, valLoss, bestValLoss, bestValLossEpoch,
                   lossFile, lossBuf, diskLog, bestFile, exc>>
    /\ UNCHANGED epochParams
    /\ UNCHANGED featVars
    /\ optSteps' = optSteps + 2
    /\ batchOps' = <<>>
    /\ UNCHANGED yielded
    /\ UNCHANGED evalVars
    /\ UNCHANGED loadVars

\* line 78: self.optimizer.step()
TrainStep ==
    /\ pc = "step"
    /\ params' = params + 1
    /\ pc' = "train"
    /\ UNCHANGED <<numEpochs, epoch, acquired, live, stream, totalLoss, evalCount,
                   isVal, trainLoss, valLoss, bestValLoss, bestValLossEpoch,
                   lossFile, lossBuf, diskLog, bestFile, exc>>
    /\ UNCHANGED epochParams
    /\ UNCHANGED featVars
    /\ optSteps' = optSteps + 1
    /\ batchOps' = <<>>
    /\ UNCHANGED yielded
    /\ UNCHANGED evalVars
    /\ UNCHANGED loadVars

\* TrainRaise with the exception caught and the loop resumed at the next batch
TrainRaiseRetry ==
    /\ \/ pc = "train" /\ stream > 0
       \/ pc \in {"zero_grad", "backward", "step"}
    /\ UNCHANGED live
    /\ UNCHANGED acquired
    /\ exc' = "train"
    /\ pc' = "train"
    /\ UNCHANGED stream
    /\ UNCHANGED fitVars
    /\ UNCHANGED featVars
    /\ UNCHANGED optVars
    /\ UNCHANGED evalVars
    /\ UNCHANGED loadVars

\* lines 63-78: the Batch Source or the model raises inside the `with`;
\* the context manager exits, the exception leaves _train_epoch and fit
TrainRaise ==
    /\ \/ pc = "train" /\ stream > 0
       \/ pc \in {"zero_grad", "backward", "step"}
    /\ live' = live \ {"train"}
    /\ UNCHANGED acquired
    /\ exc' = "train"
    /\ pc' = "fit_failed"
    /\ UNCHANGED stream
    /\ UNCHANGED fitVars
    /\ UNCHANGED featVars
    /\ UNCHANGED optVars
    /\ UNCHANGED evalVars
    /\ UNCHANGED loadVars

\* TrainExit that returns without leaving the `with`
TrainExitLeak ==
    /\ pc = "train"
    /\ stream = 0
    /\ UNCHANGED live
    /\ UNCHANGED acquired
    /\ isVal' = FALSE
    /\ epochParams' = Append(epochParams, params)
    /\ pc' = "eval_enter"
    /\ UNCHANGED <<numEpochs, epoch, stream, params, totalLoss, evalCount,
                   trainLoss, valLoss, bestValLoss, bestValLossEpoch,
                   lossFile, lossBuf, diskLog, bestFile, exc>>
    /\ UNCHANGED featVars
    /\ seed' = 0
    /\ UNCHANGED <<mode, evalCap, caller, memo, results>>
    /\ UNCHANGED optVars
    /\ UNCHANGED loadVars

\* line 72 exhausted, line 71 `with` exits, _train_epoch returns to line 111
TrainExit ==
    /\ pc = "train"
    /\ stream = 0
    /\ live' = live \ {"train"}
    /\ UNCHANGED acquired
    /\ isVal' = FALSE
    /\ epochParams' = Append(epochParams, params)
    /\ pc' = "eval_enter"
    /\ UNCHANGED <<numEpochs, epoch, stream, params, totalLoss, evalCount,
                   trainLoss, valLoss, bestValLoss, bestValLossEpoch,
                   lossFile, lossBuf, diskLog, bestFile, exc>>
    /\ UNCHANGED featVars
    /\ seed' = 0
    /\ UNCHANGED <<mode, evalCap, caller, memo, results>>
    /\ UNCHANGED optVars
    /\ UNCHANGED loadVars

\* ============================================================== evaluate

EvalSource == IF isVal THEN "eval_val" ELSE "eval_train"

\* the first of the direct evaluate calls is running
FirstDirect == caller = "direct" /\ Len(results) = 0

\* the running call reads the split the first direct call read, with the
\* same seed and the same parameters
SameSource(v, sd) ==
    /\ Len(results) >= 1
    /\ Len(memo) = 1
    /\ memo[1].isVal = v
    /\ memo[1].seed = sd
    /\ memo[1].params = params

\* the numbers of batches a Batch Source on split v with seed sd may yield:
\* the same split and seed give the same batches; under the cap of fit a
\* source of more than NumEvalBatches + 1 batches is read as one of that many
SourceLens(v, sd) ==
    IF SameSource(v, sd)
      THEN {memo[1].len}
      ELSE 0..(IF caller = "fit" THEN NumEvalBatches + 1 ELSE MaxEvalStream)

\* the losses the model may compute on batch i of that Batch Source: the
\* same batch, parameters and eval mode give the same loss
BatchLosses(v, sd, i) ==
    IF SameSource(v, sd) /\ mode = "eval" /\ i <= Len(memo[1].losses)
      THEN {memo[1].losses[i]}
      ELSE 1..MaxLoss

\* EvalEnter opening its Batch Source with a freshly drawn seed
EvalEnterAnySeed ==
    /\ pc = "eval_enter"
    /\ mode' = "eval"
    /\ totalLoss' = 0
    /\ evalCount' = 0
    /\ live' = live \cup {EvalSource}
    /\ acquired' = Append(acquired, EvalSource)
    /\ \E sd \in Seeds :
          /\ seed' = sd
          /\ \E n \in SourceLens(isVal, sd) :
                /\ stream' = n
                /\ memo' = IF FirstDirect
                             THEN <<[isVal |-> isVal, seed |-> sd,
                                     params |-> params, cap |-> evalCap,
                                     len |-> n, losses |-> <<>>]>>
                             ELSE memo
    /\ pc' = "eval"
    /\ UNCHANGED <<numEpochs, epoch, params, isVal, trainLoss, valLoss,
                   bestValLoss, bestValLossEpoch, lossFile, lossBuf, diskLog,
                   bestFile, exc>>
    /\ UNCHANGED epochParams
    /\ UNCHANGED featVars
    /\ UNCHANGED optVars
    /\ UNCHANGED <<evalCap, caller, results>>
    /\ UNCHANGED loadVars

\* lines 146-159: model.eval(), total_loss = 0, evaluate enters its `with`
\* on a Batch Source of seed 0
EvalEnter ==
    /\ pc = "eval_enter"
    /\ mode' = "eval"
    /\ totalLoss' = 0
    /\ evalCount' = 0
    /\ live' = live \cup {EvalSource}
    /\ acquired' = Append(acquired, EvalSource)
    /\ \E sd \in {0} :
          /\ seed' = sd
          /\ \E n \in SourceLens(isVal, sd) :
                /\ stream' = n
                /\ memo' = IF FirstDirect
                             THEN <<[isVal |-> isVal, seed |-> sd,
                                     params |-> params, cap |-> evalCap,
                                     len |-> n, losses |-> <<>>]>>
                             ELSE memo
    /\ pc' = "eval"
    /\ UNCHANGED <<numEpochs, epoch, params, isVal, trainLoss, valLoss,
                   bestValLoss, bestValLossEpoch, lossFile, lossBuf, diskLog,
                   bestFile, exc>>
    /\ UNCHANGED epochParams
    /\ UNCHANGED featVars
    /\ UNCHANGED optVars
    /\ UNCHANGED <<evalCap, caller, results>>
    /\ UNCHANGED loadVars

\* EvalBatch with an optimizer step on the evaluated batch
EvalBatchTrains ==
    /\ pc = "eval"
    /\ stream > 0
    /\ evalCount < evalCap
    /\ stream' = stream - 1
    /\ evalCount' = evalCount + 1
    /\ \E l \in BatchLosses(isVal, seed, evalCount + 1) :
          /\ totalLoss' = totalLoss + l
          /\ memo' = IF FirstDirect
                       THEN <<[memo[1] EXCEPT !.losses = Append(@, l)]>>
                       ELSE memo
    /\ params' = params + 1
    /\ UNCHANGED <<pc, numEpochs, epoch, acquired, live, isVal, trainLoss,
                   valLoss, bestValLoss, bestValLossEpoch, lossFile, lossBuf,
                   diskLog, bestFile, exc>>
    /\ UNCHANGED epochParams
    /\ UNCHANGED featVars
    /\ UNCHANGED optVars
    /\ UNCHANGED <<mode, seed, evalCap, caller, results>>
    /\ UNCHANGED loadVars

\* lines 160-168: zip takes a batch, then an element of range(num_batches);
\* forward pass under torch.no_grad()
EvalBatch ==
    /\ pc = "eval"
    /\ stream > 0
    /\ evalCount < evalCap
    /\ stream' = stream - 1
    /\ evalCount' = evalCount + 1
    /\ \E l \in BatchLosses(isVal, seed, evalCount + 1) :
          /\ totalLoss' = totalLoss + l
          /\ memo' = IF FirstDirect
                       THEN <<[memo[1] EXCEPT !.losses = Append(@, l)]>>
                       ELSE memo
    /\ UNCHANGED <<pc, numEpochs, epoch, acquired, live, params, isVal, trainLoss,
                   valLoss, bestValLoss, bestValLossEpoch, lossFile, lossBuf,
                   diskLog, bestFile, exc>>
    /\ UNCHANGED epochParams
    /\ UNCHANGED featVars
    /\ UNCHANGED optVars
    /\ UNCHANGED <<mode, seed, evalCap, caller, results>>
    /\ UNCHANGED loadVars

\* EvalReturn dividing by the number of batches it consumed
EvalReturnMean ==
    /\ evalCap > 0
    /\ live' = live \ {EvalSource}
    /\ UNCHANGED acquired
    /\ IF caller = "direct"
         THEN /\ results' = Append(results, [isVal |-> isVal, cap |-> evalCap,
                                                val |-> Loss(totalLoss, evalCount)])
              /\ pc' = "eval_done"
              /\ UNCHANGED <<trainLoss, valLoss, isVal>>
         ELSE /\ UNCHANGED results
              /\ IF isVal
                   THEN /\ valLoss' = Loss(totalLoss, evalCount)
                        /\ pc' = "log_write"
                        /\ UNCHANGED <<trainLoss, isVal>>
                   ELSE /\ trainLoss' = Loss(totalLoss, evalCount)
                        /\ isVal' = TRUE
                        /\ pc' = "eval_enter"
                        /\ UNCHANGED valLoss
    /\ stream' = 0
    /\ totalLoss' = 0
    /\ evalCount' = 0
    /\ UNCHANGED <<numEpochs, epoch, params, bestValLoss, bestValLossEpoch,
                   lossFile, lossBuf, diskLog, bestFile, exc>>
    /\ UNCHANGED epochParams
    /\ UNCHANGED featVars
    /\ UNCHANGED optVars
    /\ UNCHANGED <<mode, seed, evalCap, caller, memo>>
    /\ UNCHANGED loadVars

\* line 170 after the `with` of line 159 has exited: total_loss divided by
\* num_batches; the locals of the call and what is left of its stream are
\* gone
EvalReturn ==
    /\ evalCap > 0
    /\ live' = live \ {EvalSource}
    /\ UNCHANGED acquired
    /\ IF caller = "direct"
         THEN /\ results' = Append(results, [isVal |-> isVal, cap |-> evalCap,
                                                val |-> Loss(totalLoss, evalCap)])
              /\ pc' = "eval_done"
              /\ UNCHANGED <<trainLoss, valLoss, isVal>>
         ELSE /\ UNCHANGED results
              /\ IF isVal
                   THEN /\ valLoss' = Loss(totalLoss, evalCap)
                        /\ pc' = "log_write"
                        /\ UNCHANGED <<trainLoss, isVal>>
                   ELSE /\ trainLoss' = Loss(totalLoss, evalCap)
                        /\ isVal' = TRUE
                        /\ pc' = "eval_enter"
                        /\ UNCHANGED valLoss
    /\ stream' = 0
    /\ totalLoss' = 0
    /\ evalCount' = 0
    /\ UNCHANGED <<numEpochs, epoch, params, bestValLoss, bestValLossEpoch,
                   lossFile, lossBuf, diskLog, bestFile, exc>>
    /\ UNCHANGED epochParams
    /\ UNCHANGED featVars
    /\ UNCHANGED optVars
    /\ UNCHANGED <<mode, seed, evalCap, caller, memo>>
    /\ UNCHANGED loadVars

\* line 160: the Batch Source is exhausted, zip stops
EvalExhausted ==
    /\ pc = "eval"
    /\ stream = 0
    /\ EvalReturn

\* line 160: zip has taken one more batch and finds range(num_batches) spent
EvalCapStop ==
    /\ pc = "eval"
    /\ stream > 0
    /\ evalCount = evalCap
    /\ EvalReturn

\* line 170 with num_batches = 0, after the loop of line 160 has stopped and
\* the `with` has exited: the division raises
EvalDivError ==
    /\ pc = "eval"
    /\ evalCap = 0
    /\ live' = live \ {EvalSource}
    /\ exc' = "ZeroDivisionError"
    /\ pc' = "eval_failed"
    /\ UNCHANGED <<acquired, stream>>
    /\ UNCHANGED fitVars
    /\ UNCHANGED featVars
    /\ UNCHANGED optVars
    /\ UNCHANGED evalVars
    /\ UNCHANGED loadVars

\* lines 142-149: evaluate called on its own, on either split, with a cap
EvaluateStart ==
    /\ pc \in {"idle", "eval_done"}
    /\ Len(results) < MaxCalls
    /\ caller' = "direct"
    /\ \E v \in BOOLEAN : isVal' = v
    /\ \E n \in 0..MaxCap : evalCap' = n
    /\ pc' = "eval_enter"
    /\ UNCHANGED <<numEpochs, epoch, acquired, live, stream, params, totalLoss,
                   evalCount, trainLoss, valLoss, bestValLoss,
                   bestValLossEpoch, lossFile, lossBuf, diskLog, bestFile, exc>>
    /\ UNCHANGED epochParams
    /\ UNCHANGED featVars
    /\ UNCHANGED optVars
    /\ UNCHANGED <<mode, seed, memo, results>>
    /\ UNCHANGED loadVars

\* EvalRaise without the context manager: the source stays live
EvalRaiseLeak ==
    /\ pc = "eval"
    /\ stream > 0
    /\ UNCHANGED live
    /\ UNCHANGED acquired
    /\ exc' = "evaluate"
    /\ pc' = IF caller = "fit" THEN "fit_failed" ELSE "eval_failed"
    /\ UNCHANGED stream
    /\ UNCHANGED fitVars
    /\ UNCHANGED featVars
    /\ UNCHANGED optVars
    /\ UNCHANGED evalVars
    /\ UNCHANGED loadVars

\* lines 151-168: the Batch Source or the model raises inside the `with`
EvalRaise ==
    /\ pc = "eval"
    /\ stream > 0
    /\ live' = live \ {EvalSource}
    /\ UNCHANGED acquired
    /\ exc' = "evaluate"
    /\ pc' = IF caller = "fit" THEN "fit_failed" ELSE "eval_failed"
    /\ UNCHANGED stream
    /\ UNCHANGED fitVars
    /\ UNCHANGED featVars
    /\ UNCHANGED optVars
    /\ UNCHANGED evalVars
    /\ UNCHANGED loadVars

\* ===================================================== fit, end of epoch

\* WriteLossEntry put off until after the checkpoint decision
WriteLossEntryAfterCkpt ==
    /\ pc = "log_write"
    /\ UNCHANGED lossBuf
    /\ pc' = "ckpt_test"
    /\ UNCHANGED <<numEpochs, epoch, acquired, live, stream, params, totalLoss,
                   evalCount, isVal, trainLoss, valLoss, bestValLoss,
                   bestValLossEpoch, lossFile, diskLog, bestFile, exc>>
    /\ UNCHANGED epochParams
    /\ UNCHANGED featVars
    /\ UNCHANGED optVars
    /\ UNCHANGED evalVars
    /\ UNCHANGED loadVars

\* lines 121-124: the four writes of the epoch's entry
WriteLossEntry ==
    /\ pc = "log_write"
    /\ lossBuf' = Append(lossBuf, [epoch |-> epoch, train |-> trainLoss,
                                   val |-> valLoss, run |-> "this"])
    /\ pc' = "flush"
    /\ UNCHANGED <<numEpochs, epoch, acquired, live, stream, params, totalLoss,
                   evalCount, isVal, trainLoss, valLoss, bestValLoss,
                   bestValLossEpoch, lossFile, diskLog, bestFile, exc>>
    /\ UNCHANGED epochParams
    /\ UNCHANGED featVars
    /\ UNCHANGED optVars
    /\ UNCHANGED evalVars
    /\ UNCHANGED loadVars

\* FlushLoss without the flush: the entry stays in the buffer
FlushLossSkipped ==
    /\ pc = "flush"
    /\ UNCHANGED <<diskLog, lossBuf>>
    /\ pc' = "ckpt_test"
    /\ UNCHANGED <<numEpochs, epoch, acquired, live, stream, params, totalLoss,
                   evalCount, isVal, trainLoss, valLoss, bestValLoss,
                   bestValLossEpoch, lossFile, bestFile, exc>>
    /\ UNCHANGED epochParams
    /\ UNCHANGED featVars
    /\ UNCHANGED optVars
    /\ UNCHANGED evalVars
    /\ UNCHANGED loadVars

\* line 125: loss_file.flush()
FlushLoss ==
    /\ pc = "flush"
    /\ diskLog' = diskLog \o lossBuf
    /\ lossBuf' = <<>>
    /\ pc' = "ckpt_test"
    /\ UNCHANGED <<numEpochs, epoch, acquired, live, stream, params, totalLoss,
                   evalCount, isVal, trainLoss, valLoss, bestValLoss,
                   bestValLossEpoch, lossFile, bestFile, exc>>
    /\ UNCHANGED epochParams
    /\ UNCHANGED featVars
    /\ UNCHANGED optVars
    /\ UNCHANGED evalVars
    /\ UNCHANGED loadVars

\* Improves with <= in place of <: a tie replaces the checkpoint
ImprovesOrTies(val, best) == IF Len(best) = 0 THEN TRUE ELSE ~LossLess(best[1], val)

\* line 127: best_val_loss is None or val_loss < best_val_loss
Improves(val, best) == IF Len(best) = 0 THEN TRUE ELSE LossLess(val, best[1])

\* lines 127-129 when the test holds
CkptTake ==
    /\ pc = "ckpt_test"
    /\ Improves(valLoss, bestValLoss)
    /\ bestValLoss' = <<valLoss>>
    /\ bestValLossEpoch' = <<epoch>>
    /\ pc' = "unlink"
    /\ UNCHANGED <<numEpochs, epoch, acquired, live, stream, params, totalLoss,
                   evalCount, isVal, trainLoss, valLoss, lossFile, lossBuf,
                   diskLog, bestFile, exc>>
    /\ UNCHANGED epochParams
    /\ UNCHANGED featVars
    /\ UNCHANGED optVars
    /\ UNCHANGED evalVars
    /\ UNCHANGED loadVars

\* line 127 when the test fails, back to line 106
CkptSkip ==
    /\ pc = "ckpt_test"
    /\ ~Improves(valLoss, bestValLoss)
    /\ epoch' = epoch + 1
    /\ pc' = "epoch_head"
    /\ UNCHANGED <<numEpochs, acquired, live, stream, params, totalLoss, evalCount,
                   isVal, trainLoss, valLoss, bestValLoss, bestValLossEpoch,
                   lossFile, lossBuf, diskLog, bestFile, exc>>
    /\ UNCHANGED epochParams
    /\ UNCHANGED featVars
    /\ UNCHANGED optVars
    /\ UNCHANGED evalVars
    /\ UNCHANGED loadVars

\* CkptUnlink leaving the artifact in place, to be overwritten by the save
CkptUnlinkKeep ==
    /\ pc = "unlink"
    /\ UNCHANGED bestFile
    /\ pc' = "save"
    /\ UNCHANGED <<numEpochs, epoch, acquired, live, stream, params, totalLoss,
                   evalCount, isVal, trainLoss, valLoss, bestValLoss,
                   bestValLossEpoch, lossFile, lossBuf, diskLog, exc>>
    /\ UNCHANGED epochParams
    /\ UNCHANGED featVars
    /\ UNCHANGED optVars
    /\ UNCHANGED evalVars
    /\ UNCHANGED loadVars

\* lines 131-132: os.unlink of "best" if it exists
CkptUnlink ==
    /\ pc = "unlink"
    /\ bestFile' = IF Len(bestFile) > 0 THEN <<>> ELSE bestFile
    /\ pc' = "save"
    /\ UNCHANGED <<numEpochs, epoch, acquired, live, stream, params, totalLoss,
                   evalCount, isVal, trainLoss, valLoss, bestValLoss,
                   bestValLossEpoch, lossFile, lossBuf, diskLog, exc>>
    /\ UNCHANGED epochParams
    /\ UNCHANGED featVars
    /\ UNCHANGED optVars
    /\ UNCHANGED evalVars
    /\ UNCHANGED loadVars

\* lines 134-135: torch.save(self.model.state_dict(), "best"), back to line 106
CkptSave ==
    /\ pc = "save"
    /\ bestFile' = <<[params |-> params, epoch |-> epoch, run |-> "this"]>>
    /\ epoch' = epoch + 1
    /\ pc' = "epoch_head"
    /\ UNCHANGED <<numEpochs, acquired, live, stream, params, totalLoss, evalCount,
                   isVal, trainLoss, valLoss, bestValLoss, bestValLossEpoch,
                   lossFile, lossBuf, diskLog, exc>>
    /\ UNCHANGED epochParams
    /\ UNCHANGED featVars
    /\ UNCHANGED optVars
    /\ UNCHANGED evalVars
    /\ UNCHANGED loadVars

\* line 134: torch.save raises, the exception leaves fit
CkptSaveRaise ==
    /\ pc = "save"
    /\ exc' = "save"
    /\ pc' = "fit_failed"
    /\ UNCHANGED <<acquired, live, stream>>
    /\ UNCHANGED fitVars
    /\ UNCHANGED featVars
    /\ UNCHANGED optVars
    /\ UNCHANGED evalVars
    /\ UNCHANGED loadVars

\* lines 106 (range exhausted) and 137-140: loss_file.close()
FitClose ==
    /\ pc = "epoch_head"
    /\ epoch >= numEpochs
    /\ diskLog' = diskLog \o lossBuf
    /\ lossBuf' = <<>>
    /\ lossFile' = "closed"
    /\ pc' = "fit_done"
    /\ UNCHANGED <<numEpochs, epoch, acquired, live, stream, params, totalLoss,
                   evalCount, isVal, trainLoss, valLoss, bestValLoss,
                   bestValLossEpoch, bestFile, exc>>
    /\ UNCHANGED epochParams
    /\ UNCHANGED featVars
    /\ UNCHANGED optVars
    /\ UNCHANGED evalVars
    /\ UNCHANGED loadVars

NextFit ==
    \/ FitStart
    \/ FitBuildRaise
    \/ TrainEnter
    \/ TrainForward
    \/ TrainZeroGrad
    \/ TrainBackward
    \/ TrainStep
    \/ TrainRaise
    \/ TrainExit
    \/ EvalEnter
    \/ EvalBatch
    \/ EvalExhausted
    \/ EvalCapStop
    \/ EvalRaise
    \/ WriteLossEntry
    \/ FlushLoss
    \/ CkptTake
    \/ CkptSkip
    \/ CkptUnlink
    \/ CkptSave
    \/ CkptSaveRaise
    \/ FitClose

\* evaluate called from outside fit
NextEval ==
    \/ EvaluateStart
    \/ EvalDivError

\* ==================================================== featurize_patients

Pairs == Pids \X Offsets

\* a query of n pairs, position i (0-based, as the output rows) holding
\* (patient_ids[i], day_offsets[i])
Queries == UNION {[0..(n - 1) -> Pairs] : n \in 0..MaxN}

Rows(q) == DOMAIN q

\* one row of np.zeros((len(patient_ids), size)) (line 195)
ZeroRow == [d \in 1..EmbSize |-> 0]

\* the model's embedding of patient p at timeline position t: a non-zero
\* vector that differs from one (patient, position) to the next
ModelEmbedding(p, t) == [d \in 1..EmbSize |-> IF d = 1 THEN p ELSE t]

\* what the model returns at a padded position of the batch tensor
PadEmbedding == [d \in 1..EmbSize |-> 0 - 1]

\* the patients of query q: the dataset of lines 183-189 is built from them
QueryPids(q) == {q[r][1] : r \in Rows(q)}

\* the batches a Batch Source over query q may yield: batch["pid"] and, per
\* row, the length of the patient's window (positions 0..len-1 hold the
\* patient's embeddings, later positions of the tensor are padding)
Batches(q) ==
    UNION {[pid : [1..n -> QueryPids(q)], len : [1..n -> WindowLens]]
             : n \in BatchSizes}

Max(S) == CHOOSE x \in S : \A y \in S : y <= x

\* second dimension of compute_embedding_batch(batch["rnn"]) (lines 207-209)
TimeDim(b) == Max({b.len[i] : i \in DOMAIN b.len})

\* embeddings[i, index, :] for an index inside the tensor (line 212)
BatchEmbedding(b, i, index) ==
    IF index < b.len[i] THEN ModelEmbedding(b.pid[i], index) ELSE PadEmbedding

\* DictSet that leaves an existing key alone (first write wins)
DictSetKeepFirst(items, key, val) ==
    IF \E k \in 1..Len(items) : items[k].key = key
      THEN items
      ELSE Append(items, [key |-> key, val |-> val])

\* DictSet that adds an entry even when the key is present (a list of pairs)
DictSetAppend(items, key, val) == Append(items, [key |-> key, val |-> val])

\* d[key] = val on an insertion-ordered dict (line 193)
DictSet(items, key, val) ==
    IF \E k \in 1..Len(items) : items[k].key = key
      THEN [k \in 1..Len(items) |->
              IF items[k].key = key THEN [key |-> key, val |-> val] ELSE items[k]]
      ELSE Append(items, [key |-> key, val |-> val])

\* lines 191-193: the loop over enumerate(zip(patient_ids, day_offsets))
RECURSIVE BuildIndex(_, _, _)
BuildIndex(q, i, d) ==
    IF i \notin Rows(q)
      THEN d
      ELSE BuildIndex(q, i + 1, [d EXCEPT ![q[i][1]] = DictSet(@, q[i][2], i)])

\* ScatterAssign that leaves a row alone once it has been written
ScatterAssignOnce(st, b, i, index, target) ==
    IF index >= TimeDim(b)
      THEN [st EXCEPT !.err = TRUE]
      ELSE IF st.writes[target] > 0
             THEN st
             ELSE [st EXCEPT !.rep[target] = BatchEmbedding(b, i, index),
                             !.writes[target] = @ + 1]

\* line 212: patient_representations[target_id, :] = embeddings[i, index, :]
ScatterAssign(st, b, i, index, target) ==
    IF index >= TimeDim(b)
      THEN [st EXCEPT !.err = TRUE]
      ELSE [st EXCEPT !.rep[target] = BatchEmbedding(b, i, index),
                      !.writes[target] = @ + 1]

\* line 211: the loop over patient_id_to_info[patient_id].items()
RECURSIVE ScatterItems(_, _, _, _, _)
ScatterItems(st, b, i, items, k) ==
    IF st.err \/ k > Len(items)
      THEN st
      ELSE ScatterItems(ScatterAssign(st, b, i, items[k].key, items[k].val),
                        b, i, items, k + 1)

\* line 210: the loop over enumerate(batch["pid"])
RECURSIVE ScatterRows(_, _, _, _)
ScatterRows(st, b, d, i) ==
    IF st.err \/ i > Len(b.pid)
      THEN st
      ELSE ScatterRows(ScatterItems(st, b, i, d[b.pid[i]], 1), b, d, i + 1)

\* lines 206-212 on one batch
Scatter(b) == ScatterRows([rep |-> rep, writes |-> writes, err |-> FALSE], b, idx, 1)

\* the pairs batch b carries an embedding for
EmittedBy(b) == {pr \in Pairs : \E i \in DOMAIN b.pid : b.pid[i] = pr[1] /\ pr[2] < b.len[i]}

\* the rows the index holds for a patient of b whose window lacks their offset
MissedBy(b) == {r \in Rows(query) :
                  \E i \in DOMAIN b.pid : \E k \in 1..Len(idx[b.pid[i]]) :
                     /\ idx[b.pid[i]][k].val = r
                     /\ idx[b.pid[i]][k].key >= b.len[i]}

SeenBy(b) == [p \in Pids |-> seen[p] + Cardinality({i \in DOMAIN b.pid : b.pid[i] = p})]

\* lines 179-195: the query arrives, index built, output matrix zeroed
FeaturizeStart ==
    /\ pc = "idle"
    /\ \E q \in Queries :
          /\ query' = q
          /\ idx' = BuildIndex(q, 0, [p \in Pids |-> <<>>])
          /\ rep' = [r \in Rows(q) |-> ZeroRow]
          /\ writes' = [r \in Rows(q) |-> 0]
    /\ emitted' = {}
    /\ missed' = {}
    /\ seen' = [p \in Pids |-> 0]
    /\ pc' = "feat_enter"
    /\ UNCHANGED <<acquired, live, stream, exc>>
    /\ UNCHANGED fitVars
    /\ UNCHANGED optVars
    /\ UNCHANGED evalVars
    /\ UNCHANGED loadVars

\* lines 196-204: featurize_patients enters its `with`
FeatEnter ==
    /\ pc = "feat_enter"
    /\ live' = live \cup {"featurize"}
    /\ acquired' = Append(acquired, "featurize")
    /\ \E n \in 0..MaxFeatBatches : stream' = n
    /\ pc' = "scatter"
    /\ UNCHANGED exc
    /\ UNCHANGED fitVars
    /\ UNCHANGED featVars
    /\ UNCHANGED optVars
    /\ UNCHANGED evalVars
    /\ UNCHANGED loadVars

\* lines 205-212: one batch scattered into the output matrix
ScatterBatch ==
    /\ pc = "scatter"
    /\ stream > 0
    /\ \E b \in Batches(query) :
          /\ ~Scatter(b).err
          /\ rep' = Scatter(b).rep
          /\ writes' = Scatter(b).writes
          /\ emitted' = emitted \cup EmittedBy(b)
          /\ missed' = missed \cup MissedBy(b)
          /\ seen' = SeenBy(b)
    /\ stream' = stream - 1
    /\ UNCHANGED <<pc, acquired, live, exc, query, idx>>
    /\ UNCHANGED fitVars
    /\ UNCHANGED optVars
    /\ UNCHANGED evalVars
    /\ UNCHANGED loadVars

\* line 212: the index is outside the batch tensor, numpy raises IndexError,
\* the `with` exits and the exception leaves featurize_patients
ScatterIndexError ==
    /\ pc = "scatter"
    /\ stream > 0
    /\ \E b \in Batches(query) :
          /\ Scatter(b).err
          /\ rep' = Scatter(b).rep
          /\ writes' = Scatter(b).writes
          /\ emitted' = emitted \cup EmittedBy(b)
          /\ missed' = missed \cup MissedBy(b)
          /\ seen' = SeenBy(b)
    /\ stream' = stream - 1
    /\ live' = live \ {"featurize"}
    /\ UNCHANGED acquired
    /\ exc' = "IndexError"
    /\ pc' = "feat_failed"
    /\ UNCHANGED <<query, idx>>
    /\ UNCHANGED fitVars
    /\ UNCHANGED optVars
    /\ UNCHANGED evalVars
    /\ UNCHANGED loadVars

\* lines 205-209: the Batch Source or the model raises inside the `with`
FeatRaise ==
    /\ pc = "scatter"
    /\ stream > 0
    /\ live' = live \ {"featurize"}
    /\ UNCHANGED acquired
    /\ exc' = "featurize"
    /\ pc' = "feat_failed"
    /\ UNCHANGED stream
    /\ UNCHANGED fitVars
    /\ UNCHANGED featVars
    /\ UNCHANGED optVars
    /\ UNCHANGED evalVars
    /\ UNCHANGED loadVars

\* line 205 exhausted, line 202 `with` exits, line 214 returns the matrix
FeatReturn ==
    /\ pc = "scatter"
    /\ stream = 0
    /\ live' = live \ {"featurize"}
    /\ UNCHANGED acquired
    /\ pc' = "feat_done"
    /\ UNCHANGED <<stream, exc>>
    /\ UNCHANGED fitVars
    /\ UNCHANGED featVars
    /\ UNCHANGED optVars
    /\ UNCHANGED evalVars
    /\ UNCHANGED loadVars

NextFeat ==
    \/ FeaturizeStart
    \/ FeatEnter
    \/ ScatterBatch
    \/ ScatterIndexError
    \/ FeatRaise
    \/ FeatReturn

\* ========================================================= from_pretrained

Envs == [config : BOOLEAN, info : BOOLEAN, compat : BOOLEAN]

\* line 237: from_pretrained is called on a model_dir
LoadStart ==
    /\ pc = "idle"
    /\ \E env \in Envs : loadEnv' = env
    /\ pc' = "load_config"
    /\ UNCHANGED <<loaded, exc>>
    /\ UNCHANGED <<acquired, live, stream>>
    /\ UNCHANGED fitVars
    /\ UNCHANGED featVars
    /\ UNCHANGED optVars
    /\ UNCHANGED evalVars

\* line 238: read_config finds config.json
ReadConfig ==
    /\ pc = "load_config"
    /\ loadEnv.config
    /\ pc' = "load_info"
    /\ UNCHANGED exc
    /\ UNCHANGED loadVars
    /\ UNCHANGED <<acquired, live, stream>>
    /\ UNCHANGED fitVars
    /\ UNCHANGED featVars
    /\ UNCHANGED optVars
    /\ UNCHANGED evalVars

\* line 238: config.json is missing, read_config raises
ReadConfigFail ==
    /\ pc = "load_config"
    /\ ~loadEnv.config
    /\ exc' = "load"
    /\ pc' = "load_failed"
    /\ UNCHANGED loadVars
    /\ UNCHANGED <<acquired, live, stream>>
    /\ UNCHANGED fitVars
    /\ UNCHANGED featVars
    /\ UNCHANGED optVars
    /\ UNCHANGED evalVars

\* line 239: read_info finds info.json
ReadInfo ==
    /\ pc = "load_info"
    /\ loadEnv.info
    /\ pc' = "load_best"
    /\ UNCHANGED exc
    /\ UNCHANGED loadVars
    /\ UNCHANGED <<acquired, live, stream>>
    /\ UNCHANGED fitVars
    /\ UNCHANGED featVars
    /\ UNCHANGED optVars
    /\ UNCHANGED evalVars

\* line 239: info.json is missing, read_info raises
ReadInfoFail ==
    /\ pc = "load_info"
    /\ ~loadEnv.info
    /\ exc' = "load"
    /\ pc' = "load_failed"
    /\ UNCHANGED loadVars
    /\ UNCHANGED <<acquired, live, stream>>
    /\ UNCHANGED fitVars
    /\ UNCHANGED featVars
    /\ UNCHANGED optVars
    /\ UNCHANGED evalVars

\* lines 240-242: the featurizer is built and torch.load reads "best"
TorchLoad ==
    /\ pc = "load_best"
    /\ Len(bestFile) = 1
    /\ pc' = "load_state"
    /\ UNCHANGED exc
    /\ UNCHANGED loadVars
    /\ UNCHANGED <<acquired, live, stream>>
    /\ UNCHANGED fitVars
    /\ UNCHANGED featVars
    /\ UNCHANGED optVars
    /\ UNCHANGED evalVars

\* line 242: "best" is missing, torch.load raises
TorchLoadFail ==
    /\ pc = "load_best"
    /\ Len(bestFile) = 0
    /\ exc' = "load"
    /\ pc' = "load_failed"
    /\ UNCHANGED loadVars
    /\ UNCHANGED <<acquired, live, stream>>
    /\ UNCHANGED fitVars
    /\ UNCHANGED featVars
    /\ UNCHANGED optVars
    /\ UNCHANGED evalVars

\* LoadStateDict taking whatever parameters the artifact holds
LoadStateDictLenient ==
    /\ pc = "load_state"
    /\ TRUE
    /\ pc' = "load_done"
    /\ UNCHANGED exc
    /\ loaded' = bestFile
    /\ UNCHANGED loadEnv
    /\ UNCHANGED <<acquired, live, stream>>
    /\ UNCHANGED fitVars
    /\ UNCHANGED featVars
    /\ UNCHANGED optVars
    /\ UNCHANGED evalVars

\* lines 243-244: load_state_dict takes the parameters, the featurizer is
\* returned
LoadStateDict ==
    /\ pc = "load_state"
    /\ loadEnv.compat
    /\ pc' = "load_done"
    /\ UNCHANGED exc
    /\ loaded' = bestFile
    /\ UNCHANGED loadEnv
    /\ UNCHANGED <<acquired, live, stream>>
    /\ UNCHANGED fitVars
    /\ UNCHANGED featVars
    /\ UNCHANGED optVars
    /\ UNCHANGED evalVars

\* line 243: the parameters do not fit the model, load_state_dict raises
LoadStateDictFail ==
    /\ pc = "load_state"
    /\ ~loadEnv.compat
    /\ exc' = "load"
    /\ pc' = "load_failed"
    /\ UNCHANGED loadVars
    /\ UNCHANGED <<acquired, live, stream>>
    /\ UNCHANGED fitVars
    /\ UNCHANGED featVars
    /\ UNCHANGED optVars
    /\ UNCHANGED evalVars

NextLoad ==
    \/ LoadStart
    \/ ReadConfig
    \/ ReadConfigFail
    \/ ReadInfo
    \/ ReadInfoFail
    \/ TorchLoad
    \/ TorchLoadFail
    \/ LoadStateDict
    \/ LoadStateDictFail

Next == NextFit \/ NextEval \/ NextFeat \/ NextLoad

Spec == Init /\ [][Next]_vars

\* ================================================================ claims

InFeat == pc \in {"feat_enter", "scatter", "feat_done", "feat_failed"}

NoDuplicates(q) == \A i, j \in Rows(q) : q[i] = q[j] => i = j

\* the last position of the query holding pair pr
LastPos(q, pr) == Max({i \in Rows(q) : q[i] = pr})

\* the entries of the index filed under the key path pr
SlotsOf(pr) == {k \in 1..Len(idx[pr[1]]) : idx[pr[1]][k].key = pr[2]}

\* the key paths of the index whose leaf is row r
PathsTo(r) == {<<p, k>> \in Pids \X (1..Cardinality(Offsets)) :
                 k <= Len(idx[p]) /\ idx[p][k].val = r}

Exhaustive == \A r \in Rows(query) : query[r] \in emitted

\* C1: for a query without duplicate pairs featurize_patients returns a matrix
\* whose row i is non-zero exactly when the Batch Source emitted an embedding
\* for pair i, and then row i is the model's embedding of that pair.
C1_RowsMatchEmitted ==
    (InFeat /\ NoDuplicates(query)) =>
        /\ exc # "IndexError"
        /\ pc = "feat_done" =>
             \A i \in Rows(query) :
                /\ rep[i] # ZeroRow <=> query[i] \in emitted
                /\ query[i] \in emitted =>
                      rep[i] = ModelEmbedding(query[i][1], query[i][2])

\* C2: a pair repeated at positions i < j has a single index entry, which
\* holds the last position of the pair; row i is never written and stays
\* zero, and the last position is written once its patient has been streamed.
C2_LastWriteWins ==
    InFeat =>
        \A i, j \in Rows(query) :
            (i < j /\ query[i] = query[j]) =>
                /\ Cardinality(SlotsOf(query[j])) = 1
                /\ \A k \in SlotsOf(query[j]) :
                      idx[query[j][1]][k].val = LastPos(query, query[j])
                /\ writes[i] = 0
                /\ rep[i] = ZeroRow
                /\ (pc = "feat_done" /\ j = LastPos(query, query[j])
                      /\ seen[query[j][1]] > 0) => writes[j] > 0

C2_Witness ==
    /\ pc = "feat_done"
    /\ \E i, j \in Rows(query) :
          /\ i < j
          /\ query[i] = query[j]
          /\ writes[j] > 0
          /\ rep[j] = ModelEmbedding(query[j][1], query[j][2])
          /\ rep[i] = ZeroRow

\* C3 as stated: the index is a bijection between query positions and leaves,
\* every pair of the query being one key path and every row 0..N-1 being the
\* leaf of exactly one key path.
C3_Bijection ==
    InFeat =>
        /\ \A i \in Rows(query) : Cardinality(SlotsOf(query[i])) = 1
        /\ \A r \in Rows(query) : Cardinality(PathsTo(r)) = 1

\* C3 amended: the index holds one key path per distinct pair of the query,
\* its leaf is the last position of that pair, no other leaf exists, and
\* every row is a leaf exactly when the query has no duplicate pair.
C3_IndexOfDistinctPairs ==
    InFeat =>
        /\ \A i \in Rows(query) :
              /\ Cardinality(SlotsOf(query[i])) = 1
              /\ \A k \in SlotsOf(query[i]) :
                    idx[query[i][1]][k].val = LastPos(query, query[i])
        /\ \A p \in Pids : \A k \in 1..Len(idx[p]) :
              /\ idx[p][k].val \in Rows(query)
              /\ query[idx[p][k].val] = <<p, idx[p][k].key>>
        /\ NoDuplicates(query) <=>
              \A r \in Rows(query) : Cardinality(PathsTo(r)) = 1

C3_Witness ==
    /\ pc = "feat_enter"
    /\ ~NoDuplicates(query)
    /\ \E r \in Rows(query) : PathsTo(r) = {}

\* C4 as stated: with an exhaustive Batch Source every row has been written
\* by exactly one scatter assignment when featurize_patients returns.
C4_ExactlyOnce ==
    (pc = "feat_done" /\ Exhaustive) =>
        \A r \in Rows(query) : writes[r] = 1

\* C4 amended: when featurize_patients returns, a row that is the last
\* position of its pair has been written once per batch row of its patient
\* (at least once if its pair was emitted), and any other row never.
C4_WritesPerOccurrence ==
    pc = "feat_done" =>
        \A r \in Rows(query) :
            /\ writes[r] = IF r = LastPos(query, query[r])
                             THEN seen[query[r][1]] ELSE 0
            /\ (query[r] \in emitted /\ r = LastPos(query, query[r])) =>
                  writes[r] >= 1

C4_Witness ==
    /\ pc = "feat_done"
    /\ Exhaustive
    /\ NoDuplicates(query)
    /\ \E r \in Rows(query) : writes[r] = 2

\* C5: a row whose patient came in a batch whose window lacks the requested
\* offset is not written and stays zero, and no error is raised.
C5_MissingOffsetStaysZero ==
    InFeat =>
        /\ exc # "IndexError"
        /\ \A r \in missed :
              query[r] \notin emitted => (writes[r] = 0 /\ rep[r] = ZeroRow)

InFit ==
    /\ caller = "fit"
    /\ pc \in {"epoch_head", "train", "zero_grad", "backward", "step",
               "eval_enter", "eval", "log_write", "flush", "ckpt_test",
               "unlink", "save", "fit_done", "fit_failed"}

\* val_loss of epoch e as the loss log on disk has it
ValAt(e) == diskLog[e + 1].val

\* the earliest epoch among 0..n-1 whose val_loss no other epoch undercuts
EarliestMin(n) ==
    CHOOSE e \in 0..(n - 1) :
        /\ \A f \in 0..(n - 1) : ~LossLess(ValAt(f), ValAt(e))
        /\ \A f \in 0..(e - 1) : LossLess(ValAt(e), ValAt(f))

\* C6: the log on disk holds the entries of this run in epoch order; the
\* entry of epoch e is on disk from the end of line 125 on, also when a later
\* step fails, and a complete fit over K epochs leaves K entries.
C6_LossLogPerEpoch ==
    InFit =>
        /\ \A k \in 1..Len(diskLog) :
              diskLog[k].epoch = k - 1 /\ diskLog[k].run = "this"
        /\ pc \in {"ckpt_test", "unlink", "save"} =>
              /\ Len(diskLog) = epoch + 1
              /\ diskLog[epoch + 1].train = trainLoss
              /\ diskLog[epoch + 1].val = valLoss
        /\ pc \in {"epoch_head", "train", "zero_grad", "backward", "step",
                   "eval_enter", "eval", "log_write", "flush"} =>
              Len(diskLog) = epoch
        /\ pc = "fit_done" => Len(diskLog) = numEpochs
        /\ pc = "fit_failed" =>
              Len(diskLog) = IF exc = "save" THEN epoch + 1 ELSE epoch

C6_Witness ==
    /\ pc = "fit_failed"
    /\ exc \in {"train", "evaluate"}
    /\ epoch = 1
    /\ Len(diskLog) = 1
    /\ diskLog[1].epoch = 0

\* C7: after a complete fit "best" holds the parameters of the earliest epoch
\* of minimal val_loss, and the checkpoint branch is taken at epoch e exactly
\* when val_loss(e) is below every val_loss of the epochs before e.
C7_BestIsEarliestMin ==
    /\ [](pc = "fit_done" /\ numEpochs > 0 =>
            /\ Len(bestFile) = 1
            /\ bestFile[1].run = "this"
            /\ bestFile[1].epoch = EarliestMin(numEpochs)
            /\ bestFile[1].params = epochParams[EarliestMin(numEpochs) + 1])
    /\ [][pc = "ckpt_test" =>
            (pc' = "unlink" <=>
               \A e \in 0..(epoch - 1) : LossLess(valLoss, ValAt(e)))]_vars

C7_Witness ==
    /\ pc = "fit_done"
    /\ numEpochs >= 2
    /\ ValAt(0) = ValAt(1)
    /\ epochParams[1] # epochParams[2]
    /\ bestFile[1].epoch = 0
    /\ bestFile[1].params = epochParams[1]

\* C8: loss_file is closed whenever fit has ended, by return or by exception.
C8_LossFileClosed ==
    pc \in {"fit_done", "fit_failed"} => lossFile = "closed"

\* C9: a Batch Source is live only inside the call that acquired it: none
\* is live once _train_epoch, evaluate or featurize_patients has ended,
\* whether by exhaustion, by the batch cap or by an exception.
C9_SourcesReleased ==
    /\ pc \notin {"train", "zero_grad", "backward", "step"} => "train" \notin live
    /\ pc # "eval" => live \cap {"eval_train", "eval_val"} = {}
    /\ pc # "scatter" => "featurize" \notin live
    /\ pc \in {"idle", "fit_done", "fit_failed", "feat_done", "feat_failed",
               "eval_done", "eval_failed", "load_done", "load_failed",
               "build_failed"} =>
          live = {}

C9_Witness ==
    /\ pc = "fit_failed"
    /\ exc = "evaluate"
    /\ evalCount > 0
    /\ stream > 0
    /\ live = {}

FitCycle == <<"train", "eval_train", "eval_val">>

\* C10: at most one Batch Source is live, it is the one acquired last, and
\* fit acquires them in the order train, eval-train, eval-val, train, ...
C10_OneLiveSource ==
    /\ Cardinality(live) <= 1
    /\ live # {} => live = {acquired[Len(acquired)]}
    /\ InFit => \A k \in 1..Len(acquired) : acquired[k] = FitCycle[((k - 1) % 3) + 1]
    /\ InFeat => \A k \in 1..Len(acquired) : acquired[k] = "featurize"

C10_Witness ==
    /\ pc = "train"
    /\ epoch = 1
    /\ live = {"train"}
    /\ acquired = <<"train", "eval_train", "eval_val", "train">>

\* C11: once a batch of the train or evaluate phase of epoch e has raised, fit
\* has failed and takes no further step: no entry of epoch e is in the log
\* or its buffer, "best" holds no checkpoint of epoch e or later, and the
\* exception is the outcome of the call.
C11_AbortNoRetry ==
    /\ [](exc \in {"train", "evaluate"} /\ caller = "fit" =>
            /\ pc = "fit_failed"
            /\ Len(diskLog) = epoch
            /\ lossBuf = <<>>
            /\ \A k \in 1..Len(bestFile) :
                  bestFile[k].run = "this" => bestFile[k].epoch < epoch)
    /\ [][pc # "fit_failed"]_vars

C11_Witness ==
    /\ pc = "fit_failed"
    /\ exc = "train"
    /\ epoch = 1
    /\ Len(bestFile) = 1
    /\ bestFile[1].epoch = 0
    /\ bestFile[1].run = "this"
    /\ Len(diskLog) = 1

InLoad == pc \in {"load_config", "load_info", "load_best", "load_state",
                  "load_done", "load_failed"}

\* C12: from_pretrained returns a featurizer only when config.json, info.json
\* and "best" are in model_dir and the parameters of "best" fit the model,
\* and then the model holds the parameters of "best"; when it has failed it
\* has raised, and it fails at the first of the four that is wrong.
C12_LoadOrFail ==
    /\ pc = "load_done" =>
          /\ loadEnv.config /\ loadEnv.info /\ loadEnv.compat
          /\ Len(bestFile) = 1
          /\ loaded = bestFile
          /\ exc = "none"
    /\ pc = "load_failed" => exc = "load"
    /\ pc \in {"load_info", "load_best", "load_state"} => loadEnv.config
    /\ pc \in {"load_best", "load_state"} => loadEnv.info
    /\ pc = "load_state" => Len(bestFile) = 1
    /\ InLoad /\ pc # "load_done" => loaded = <<>>

C12_Witness ==
    /\ pc = "load_failed"
    /\ loadEnv.config
    /\ loadEnv.info
    /\ Len(bestFile) = 1
    /\ ~loadEnv.compat

\* the per-batch losses of a sequence, added up as line 165 does
RECURSIVE SumSeq(_)
SumSeq(q) == IF Len(q) = 0 THEN 0 ELSE q[1] + SumSeq(Tail(q))

InTrain == pc \in {"train", "zero_grad", "backward", "step"}

\* C13: evaluate reads its Batch Source with seed 0 and the model in eval
\* mode, and a direct call on the split, cap and parameters of the first
\* direct call returns the value the first call returned; a train phase
\* reads a Batch Source whose seed it has drawn.
C13_EvaluateDeterministic ==
    /\ pc = "eval" => seed = 0 /\ mode = "eval"
    /\ InTrain => seed \in Seeds /\ mode = "train"
    /\ \A j \in 1..Len(results) :
          (results[j].isVal = results[1].isVal /\ results[j].cap = results[1].cap)
             => results[j].val = results[1].val

C13_Witness ==
    /\ pc = "eval_done"
    /\ Len(results) = 2
    /\ results[2].isVal = results[1].isVal
    /\ results[2].cap = results[1].cap
    /\ results[1].val.num > 0
    /\ memo[1].len < memo[1].cap

\* the artifact in "best" was written by this fit call
OwnBest == Len(bestFile) = 1 /\ bestFile[1].run = "this"

\* C14: no step of an evaluate call changes the parameters, the optimizer's
\* step count or the operations done on a train batch, and the parameters
\* fit saves to "best" at epoch e are those the train phase of e left.
C14_EvaluateFrame ==
    /\ [][(pc \in {"eval_enter", "eval"}) =>
            (params' = params /\ optSteps' = optSteps /\ batchOps' = batchOps)]_vars
    /\ [](InFit /\ OwnBest =>
            bestFile[1].params = epochParams[bestFile[1].epoch + 1])

C14_Witness ==
    /\ pc = "epoch_head"
    /\ epoch = 1
    /\ OwnBest
    /\ bestFile[1].epoch = 0
    /\ bestFile[1].params = 1
    /\ trainLoss.num > 0
    /\ valLoss.num > 0

TrainOrder == <<"forward", "zero_grad", "backward", "step">>

\* batches the train phases of this fit call have taken from their sources
BatchesTaken ==
    SumSeq(yielded) - (IF InTrain THEN stream ELSE 0)

\* C15: each train batch goes through forward pass, gradient reset, backward
\* pass and optimizer step in that order; the optimizer built at the start of
\* fit takes one step per batch, so a fit that returns after every epoch
\* streamed the dataset's train batch count has taken t_total steps.
C15_OneStepPerBatch ==
    /\ [](InFit /\ pc # "fit_failed" =>
            /\ batchOps = SubSeq(TrainOrder, 1, Len(batchOps))
            /\ pc = "zero_grad" => Len(batchOps) = 1
            /\ pc = "backward" => Len(batchOps) = 2
            /\ pc = "step" => Len(batchOps) = 3
            /\ pc \notin {"zero_grad", "backward", "step"} => batchOps = <<>>
            /\ optSteps = BatchesTaken - (IF batchOps = <<>> THEN 0 ELSE 1)
            /\ params = optSteps)
    /\ [][optSteps' # optSteps /\ pc # "idle" =>
            (pc = "step" /\ optSteps' = optSteps + 1)]_vars
    /\ [](pc = "fit_done" /\ (\A e \in 1..Len(yielded) :
                                 yielded[e] = DatasetNumBatches) =>
            optSteps = TTotal)

C15_Witness ==
    /\ pc = "fit_done"
    /\ numEpochs = 2
    /\ \A e \in 1..Len(yielded) : yielded[e] = DatasetNumBatches
    /\ DatasetNumBatches > 0
    /\ optSteps = TTotal

\* C16: fit deletes "best" before it writes it: from the delete to the end
\* of the write no "best" is on disk, and a save that fails leaves none.
C16_DeleteThenWrite ==
    /\ [](pc = "save" => bestFile = <<>>)
    /\ [](pc = "fit_failed" /\ exc = "save" => bestFile = <<>>)
    /\ [][pc = "unlink" => pc' = "save" /\ bestFile' = <<>>]_vars

C16_Witness ==
    /\ pc = "fit_failed"
    /\ exc = "save"
    /\ epoch = 1
    /\ bestValLossEpoch = <<1>>
    /\ bestFile = <<>>
    /\ Len(diskLog) = 2

\* C17: the checkpoint test of the first epoch always succeeds; once the
\* first epoch is over "best" is absent or written by this fit call, after a
\* fit that returns having run an epoch it is written by this call, and no
\* entry of an earlier run is in the loss log.
C17_FirstEpochIsBest ==
    /\ [][InFit /\ pc = "ckpt_test" /\ epoch = 0 => pc' = "unlink"]_vars
    /\ [](InFit /\ epoch >= 1 =>
            \A k \in 1..Len(bestFile) : bestFile[k].run = "this")
    /\ [](pc = "fit_done" /\ numEpochs >= 1 => OwnBest)
    /\ [](InFit => \A k \in 1..Len(diskLog) : diskLog[k].run = "this")

C17_Witness ==
    /\ pc = "unlink"
    /\ epoch = 0
    /\ bestFile = <<PriorBest>>
    /\ LossLess(PriorEntry.val, valLoss)
    /\ bestValLossEpoch = <<0>>

\* C18: at every state of fit, the epoch whose parameters are in "best" has
\* its entry in the loss log on disk: the log on disk has more entries than
\* the epoch number of the artifact in "best".
C18_BestHasLogEntry ==
    InFit /\ Len(bestFile) = 1 => Len(diskLog) > bestFile[1].epoch

\* C18, for an artifact this fit call wrote: its epoch's entry is in the loss
\* log on disk, so the log has more entries than the artifact's epoch number.
C18_OwnBestHasLogEntry ==
    InFit /\ OwnBest =>
        /\ Len(diskLog) > bestFile[1].epoch
        /\ diskLog[bestFile[1].epoch + 1].epoch = bestFile[1].epoch
        /\ diskLog[bestFile[1].epoch + 1].run = "this"

C18_Witness ==
    /\ pc = "epoch_head"
    /\ OwnBest
    /\ bestFile[1].epoch = 1
    /\ Len(diskLog) = 2
    /\ diskLog[2].epoch = 1

Min(a, b) == IF a < b THEN a ELSE b

\* the value v is the mean of the per-batch losses q
IsMean(v, q) == Len(q) > 0 /\ v.num * Len(q) = SumSeq(q) * v.den

\* C19: evaluate takes min(num_batches, batches of the source) batches and
\* returns the sum of their losses over num_batches, in a direct call and in
\* the calls of fit; the value is the mean loss of the batches taken exactly
\* when the source held num_batches of them, and a call with num_batches = 0
\* returns nothing and raises.
C19_DividesByRequested ==
    /\ pc = "eval" => evalCount <= Min(evalCap, evalCount + stream)
    /\ Len(results) >= 1 =>
          /\ Len(memo[1].losses) = Min(memo[1].cap, memo[1].len)
          /\ results[1].val = Loss(SumSeq(memo[1].losses), memo[1].cap)
          /\ IsMean(results[1].val, memo[1].losses)
                <=> memo[1].len >= memo[1].cap
    /\ \A j \in 1..Len(results) : results[j].cap > 0 /\ results[j].val.den = results[j].cap
    /\ InFit => \A k \in 1..Len(diskLog) :
          /\ diskLog[k].train.den = NumEvalBatches
          /\ diskLog[k].val.den = NumEvalBatches
    /\ caller = "direct" /\ evalCap = 0 => pc \in {"eval_enter", "eval", "eval_failed"}
    /\ exc = "ZeroDivisionError" => pc = "eval_failed" /\ evalCap = 0 /\ live = {}

C19_Witness ==
    /\ pc = "eval_done"
    /\ Len(results) = 1
    /\ memo[1].cap = 2
    /\ memo[1].len = 1
    /\ results[1].val = Loss(1, 2)
    /\ ~IsMean(results[1].val, memo[1].losses)
====
